---- MODULE Spec2Model ----
(***************************************************************************)
(* Model of the LLM Chaos Server (src/main.py): the response classifier    *)
(* detect_content_type, the response sanitizer clean_llm_response and the  *)
(* request handler catch_all running on the server's event loop.           *)
(*                                                                         *)
(* Text is a sequence of one-character strings, bytes are a sequence of    *)
(* byte values 0..255.                                                     *)
(***************************************************************************)
EXTENDS Integers, Sequences, FiniteSets

VARIABLES
    \* ---- one handler invocation per request (catch_all's locals) ----
    pc,            \* position of each request's handler coroutine
    method,        \* request.method
    full_path,     \* the path parameter, without its leading "/"
    query_params,  \* dict(request.query_params), a sequence of <<key, value>>
    raw,           \* the bytes of the request body
    body,          \* the local `body`
    prompt,        \* the interpolated fields of the local `prompt`
    calls,         \* how many times model.generate_content was invoked
    model_out,     \* what the invocation gave: a text, an error or nothing yet
    response,      \* the Responses the handler returned, in order
    loop,          \* the request whose handler occupies the event loop thread
    \* ---- the pure functions applied to a text ----
    content,       \* the text given to the function
    cleaned,       \* the text after clean_llm_response was applied
    applied,       \* whether clean_llm_response was applied
    detected       \* <<>> or <<the pair detect_content_type returned>>

hvars == <<pc, method, full_path, query_params, raw, body, prompt, calls,
           model_out, response, loop>>
tvars == <<content, cleaned, applied, detected>>
vars == <<pc, method, full_path, query_params, raw, body, prompt, calls,
          model_out, response, loop, content, cleaned, applied, detected>>

(***************************************************************************)
(* Bounds of the model.                                                    *)
(***************************************************************************)
\* Number of fragments concatenated into a text given to the sanitizer.
MaxCleanFrags == 5
\* Number of fragments concatenated into a text given to the classifier.
MaxTypeFrags == 3
\* Number of requests in flight on the event loop.
NumRequests == 2

\* Python's None, as a value of the local `body`.
None == [t |-> "none", v |-> <<>>]

(***************************************************************************)
(* Python's str operations, on sequences of characters.                    *)
(***************************************************************************)
\* The characters str.strip() removes (the ASCII ones that occur here).
Whitespace == {" ", "\t", "\n", "\r"}

UpperCase == <<"A", "B", "C", "D", "E", "F", "G", "H", "I", "J", "K", "L", "M",
               "N", "O", "P", "Q", "R", "S", "T", "U", "V", "W", "X", "Y", "Z">>
LowerCase == <<"a", "b", "c", "d", "e", "f", "g", "h", "i", "j", "k", "l", "m",
               "n", "o", "p", "q", "r", "s", "t", "u", "v", "w", "x", "y", "z">>

LowerChar(c) ==
    IF \E i \in 1..26 : UpperCase[i] = c
    THEN LowerCase[CHOOSE i \in 1..26 : UpperCase[i] = c]
    ELSE c

\* str.lower()
RECURSIVE Lower(_)
Lower(s) == IF s = <<>> THEN <<>> ELSE <<LowerChar(Head(s))>> \o Lower(Tail(s))

SetMin(S) == CHOOSE x \in S : \A y \in S : x <= y
SetMax(S) == CHOOSE x \in S : \A y \in S : x >= y

\* str.strip()
Strip(s) ==
    LET keep == {i \in 1..Len(s) : s[i] \notin Whitespace}
    IN  IF keep = {} THEN <<>> ELSE SubSeq(s, SetMin(keep), SetMax(keep))

\* str.startswith(p)
StartsWith(s, p) == Len(s) >= Len(p) /\ SubSeq(s, 1, Len(p)) = p

\* The positions at which p occurs in s.
Occurrences(s, p) ==
    {i \in 1..(Len(s) - Len(p) + 1) : SubSeq(s, i, i + Len(p) - 1) = p}

\* `p in s`
Contains(s, p) == Occurrences(s, p) # {}

\* str.split(sep): left to right, occurrences do not overlap.
RECURSIVE Split(_, _)
Split(s, sep) ==
    IF Occurrences(s, sep) = {}
    THEN <<s>>
    ELSE LET i == SetMin(Occurrences(s, sep))
         IN  <<SubSeq(s, 1, i - 1)>> \o Split(SubSeq(s, i + Len(sep), Len(s)), sep)

\* sep.join(items)
RECURSIVE Join(_, _)
Join(items, sep) ==
    IF items = <<>> THEN <<>>
    ELSE IF Len(items) = 1 THEN items[1]
    ELSE items[1] \o sep \o Join(Tail(items), sep)

\* The concatenation of a sequence of texts.
Concat(items) == Join(items, <<>>)

(***************************************************************************)
(* detect_content_type (src/main.py, 21-34)                                *)
(***************************************************************************)
DoctypeHtml == <<"<", "!", "d", "o", "c", "t", "y", "p", "e", " ", "h", "t", "m", "l">>
HtmlOpen == <<"<", "h", "t", "m", "l">>
KwFunction == <<"f", "u", "n", "c", "t", "i", "o", "n">>
KwConst == <<"c", "o", "n", "s", "t", " ">>
KwVar == <<"v", "a", "r", " ">>

\* The same conditions tested in a different order: javascript before json.
detect_content_type_js_first(text) ==
    LET content_lower == Lower(Strip(text))
    IN  IF StartsWith(content_lower, DoctypeHtml) \/ StartsWith(content_lower, HtmlOpen)
        THEN <<"text/html", "html">>
        ELSE IF Contains(content_lower, KwFunction) \/ Contains(content_lower, KwConst)
                \/ Contains(content_lower, KwVar)
        THEN <<"application/javascript", "js">>
        ELSE IF StartsWith(content_lower, <<"{">>) \/ StartsWith(content_lower, <<"[">>)
        THEN <<"application/json", "json">>
        ELSE IF StartsWith(content_lower, <<"@">>)
                \/ (Contains(text, <<"{">>) /\ Contains(text, <<":">>) /\ Contains(text, <<";">>))
        THEN <<"text/css", "css">>
        ELSE <<"text/plain", "text">>

detect_content_type(text) ==
    LET content_lower == Lower(Strip(text))
    IN  IF StartsWith(content_lower, DoctypeHtml) \/ StartsWith(content_lower, HtmlOpen)
        THEN <<"text/html", "html">>
        ELSE IF StartsWith(content_lower, <<"{">>) \/ StartsWith(content_lower, <<"[">>)
        THEN <<"application/json", "json">>
        ELSE IF Contains(content_lower, KwFunction) \/ Contains(content_lower, KwConst)
                \/ Contains(content_lower, KwVar)
        THEN <<"application/javascript", "js">>
        ELSE IF StartsWith(content_lower, <<"@">>)
                \/ (Contains(text, <<"{">>) /\ Contains(text, <<":">>) /\ Contains(text, <<";">>))
        THEN <<"text/css", "css">>
        ELSE <<"text/plain", "text">>

(***************************************************************************)
(* clean_llm_response (src/main.py, 37-48)                                 *)
(***************************************************************************)
\* The grave accent U+0060, which a string of this notation cannot hold.
Backtick == "U+0060"
Fence == <<Backtick, Backtick, Backtick>>
Newline == <<"\n">>

LanguageTags ==
    { <<"h", "t", "m", "l">>, <<"j", "s", "o", "n">>,
      <<"j", "a", "v", "a", "s", "c", "r", "i", "p", "t">>, <<"j", "s">>,
      <<"c", "s", "s">>, <<"p", "y", "t", "h", "o", "n">>, <<"x", "m", "l">> }

\* The sanitizer comparing the first line as it stands (no lines[0].strip()).
clean_llm_response_exact_line(text) ==
    IF Contains(text, Fence)
    THEN LET parts == Split(text, Fence)
             odd == {i \in 1..Len(parts) : (i - 1) % 2 = 1}
         IN  IF odd = {} THEN text
             ELSE LET part == parts[SetMin(odd)]
                      lines == Split(Strip(part), Newline)
                  IN  IF lines[1] \in LanguageTags
                      THEN Join(Tail(lines), Newline)
                      ELSE Strip(part)
    ELSE text

\* The sanitizer trimming a text that has no fence.
clean_llm_response_trim_plain(text) ==
    IF Contains(text, Fence)
    THEN LET parts == Split(text, Fence)
             odd == {i \in 1..Len(parts) : (i - 1) % 2 = 1}
         IN  IF odd = {} THEN text
             ELSE LET part == parts[SetMin(odd)]
                      lines == Split(Strip(part), Newline)
                  IN  IF Strip(lines[1]) \in LanguageTags
                      THEN Join(Tail(lines), Newline)
                      ELSE Strip(part)
    ELSE Strip(text)

\* The loop over enumerate(parts) returns at the first odd (0-based) index;
\* without one it falls through to `return content`.
clean_llm_response(text) ==
    IF Contains(text, Fence)
    THEN LET parts == Split(text, Fence)
             odd == {i \in 1..Len(parts) : (i - 1) % 2 = 1}
         IN  IF odd = {} THEN text
             ELSE LET part == parts[SetMin(odd)]
                      lines == Split(Strip(part), Newline)
                  IN  IF Strip(lines[1]) \in LanguageTags
                      THEN Join(Tail(lines), Newline)
                      ELSE Strip(part)
    ELSE text

(***************************************************************************)
(* The texts the two functions are applied to: concatenations of a few     *)
(* fragments.                                                              *)
(***************************************************************************)
CleanFrags ==
    { Fence, <<Backtick>>, <<"h", "t", "m", "l">>, <<"j", "s">>, <<" ">>, <<"\n">>,
      <<"\r", "\n">>, <<"x">> }

TypeFrags ==
    { <<" ">>, <<"\n">>, <<"x">>, <<"{">>, <<"[">>, <<"@">>, <<":">>, <<";">>,
      <<"<", "h", "t", "m", "l">>,
      <<"<", "!", "D", "O", "C", "T", "Y", "P", "E", " ", "h", "t", "m", "l">>,
      <<"F", "u", "n", "c", "t", "i", "o", "n">>,
      <<"c", "o", "n", "s", "t", " ">>, <<"v", "a", "r", " ">> }

\* No request has arrived: the handler's variables, for the runs that only
\* apply the pure functions.
Requests == 1..NumRequests
NoPrompt == [Method |-> "", Path |-> <<>>, QueryParameters |-> <<>>, RequestBody |-> <<>>]
NoOutcome == [kind |-> "pending", text |-> <<>>]

NoRequests ==
    /\ pc = [r \in Requests |-> "none"]
    /\ method = [r \in Requests |-> "GET"]
    /\ full_path = [r \in Requests |-> <<>>]
    /\ query_params = [r \in Requests |-> <<>>]
    /\ raw = [r \in Requests |-> <<>>]
    /\ body = [r \in Requests |-> None]
    /\ prompt = [r \in Requests |-> NoPrompt]
    /\ calls = [r \in Requests |-> 0]
    /\ model_out = [r \in Requests |-> NoOutcome]
    /\ response = [r \in Requests |-> <<>>]
    /\ loop = 0

NoText ==
    /\ content = <<>>
    /\ cleaned = <<>>
    /\ applied = FALSE
    /\ detected = <<>>

InitSanitizer ==
    /\ NoRequests
    /\ \E n \in 0..MaxCleanFrags : \E f \in [1..n -> CleanFrags] : content = Concat(f)
    /\ cleaned = content
    /\ applied = FALSE
    /\ detected = <<>>

InitClassifier ==
    /\ NoRequests
    /\ \E n \in 0..MaxTypeFrags : \E f \in [1..n -> TypeFrags] : content = Concat(f)
    /\ cleaned = content
    /\ applied = FALSE
    /\ detected = <<>>

\* content = clean_llm_response(content), on the text obtained so far.
Sanitize ==
    /\ cleaned' = clean_llm_response(cleaned)
    /\ applied' = TRUE
    /\ UNCHANGED <<content, detected>>
    /\ UNCHANGED hvars

\* media_type, content_type = detect_content_type(content)
Classify ==
    /\ detected = <<>>
    /\ detected' = <<detect_content_type(content)>>
    /\ UNCHANGED <<content, cleaned, applied>>
    /\ UNCHANGED hvars

SpecSanitizer == InitSanitizer /\ [][Sanitize]_vars
SpecClassifier == InitClassifier /\ [][Classify]_vars

(***************************************************************************)
(* The request body: bytes, their UTF-8 decoding and their JSON reading    *)
(* (request.json() and bytes.decode(), src/main.py 63-66).                 *)
(***************************************************************************)
\* The printable ASCII characters, from code 32 on.
Printable ==
    << " ", "!", "\"", "#", "$", "%", "&", "'", "(", ")", "*", "+", ",", "-", ".", "/",
       "0", "1", "2", "3", "4", "5", "6", "7", "8", "9", ":", ";", "<", "=", ">", "?",
       "@", "A", "B", "C", "D", "E", "F", "G", "H", "I", "J", "K", "L", "M", "N", "O",
       "P", "Q", "R", "S", "T", "U", "V", "W", "X", "Y", "Z", "[", "\\", "]", "^", "_",
       Backtick, "a", "b", "c", "d", "e", "f", "g", "h", "i", "j", "k", "l", "m", "n", "o",
       "p", "q", "r", "s", "t", "u", "v", "w", "x", "y", "z", "{", "|", "}", "~" >>

\* The character of a one-byte (ASCII) code.
Chr(b) ==
    IF b >= 32 /\ b <= 126 THEN Printable[b - 31]
    ELSE IF b = 9 THEN "\t"
    ELSE IF b = 10 THEN "\n"
    ELSE IF b = 13 THEN "\r"
    ELSE "U+00" \* another control character: none occurs in the bodies below

\* The character U+00E9, which UTF-8 writes as the two bytes 195, 169.
EAcute == "U+00E9"

\* bytes.decode(): UTF-8, strict. One-byte codes, and the two-byte code of
\* U+00E9; every other byte from 128 on is not the start of a character here.
RECURSIVE Utf8Decode(_)
Utf8Decode(bytes) ==
    IF bytes = <<>> THEN [ok |-> TRUE, text |-> <<>>]
    ELSE IF bytes[1] < 128
    THEN LET rest == Utf8Decode(Tail(bytes))
         IN  [ok |-> rest.ok, text |-> <<Chr(bytes[1])>> \o rest.text]
    ELSE IF Len(bytes) >= 2 /\ bytes[1] = 195 /\ bytes[2] = 169
    THEN LET rest == Utf8Decode(SubSeq(bytes, 3, Len(bytes)))
         IN  [ok |-> rest.ok, text |-> <<EAcute>> \o rest.text]
    ELSE [ok |-> FALSE, text |-> <<>>]

\* Python values of the local `body`: None, or what json.loads or decode gave.
\* v is the text of a str, the digits of an int, the items of a list joined by
\* commas, and nothing for the others.
PyStr(text) == [t |-> "str", v |-> text]
PyInt(digits) == [t |-> "int", v |-> digits]
PyList(items) == [t |-> "list", v |-> items]
PyDict == [t |-> "dict", v |-> <<>>]
PyTrue == [t |-> "True", v |-> <<>>]
PyFalse == [t |-> "False", v |-> <<>>]

Digits == {"0", "1", "2", "3", "4", "5", "6", "7", "8", "9"}

\* A JSON number without sign, fraction or exponent.
IsJsonInt(text) ==
    /\ text # <<>>
    /\ \A i \in 1..Len(text) : text[i] \in Digits
    /\ Len(text) = 1 \/ text[1] # "0"

\* A JSON string without escapes: no quote, backslash or control character
\* between its quotes.
IsJsonString(text) ==
    /\ Len(text) >= 2
    /\ text[1] = "\"" /\ text[Len(text)] = "\""
    /\ \A i \in 2..(Len(text) - 1) : text[i] \notin {"\"", "\\", "\t", "\n", "\r", "U+00"}

\* A JSON array of such numbers.
IsJsonIntList(text) ==
    /\ Len(text) >= 2
    /\ text[1] = "[" /\ text[Len(text)] = "]"
    /\ LET inner == Strip(SubSeq(text, 2, Len(text) - 1))
       IN  inner = <<>> \/ \A i \in 1..Len(Split(inner, <<",">>)) :
                                IsJsonInt(Strip(Split(inner, <<",">>)[i]))

JsonListItems(text) ==
    LET inner == Strip(SubSeq(text, 2, Len(text) - 1))
        items == Split(inner, <<",">>)
    IN  IF inner = <<>> THEN <<>>
        ELSE Join([i \in 1..Len(items) |-> Strip(items[i])], <<",">>)

\* await request.json(): json.loads of the body's bytes. The grammar read is
\* null, true, false, unsigned integers, strings without escapes, {} and
\* arrays of unsigned integers; ok is FALSE where json.loads raises.
JsonLoads(bytes) ==
    LET dec == Utf8Decode(bytes)
        text == Strip(dec.text)
    IN  IF ~dec.ok THEN [ok |-> FALSE, val |-> None]
        ELSE IF text = <<"n", "u", "l", "l">> THEN [ok |-> TRUE, val |-> None]
        ELSE IF text = <<"t", "r", "u", "e">> THEN [ok |-> TRUE, val |-> PyTrue]
        ELSE IF text = <<"f", "a", "l", "s", "e">> THEN [ok |-> TRUE, val |-> PyFalse]
        ELSE IF IsJsonInt(text) THEN [ok |-> TRUE, val |-> PyInt(text)]
        ELSE IF IsJsonString(text)
        THEN [ok |-> TRUE, val |-> PyStr(SubSeq(text, 2, Len(text) - 1))]
        ELSE IF Len(text) >= 2 /\ text[1] = "{" /\ text[Len(text)] = "}"
                /\ Strip(SubSeq(text, 2, Len(text) - 1)) = <<>>
        THEN [ok |-> TRUE, val |-> PyDict]
        ELSE IF IsJsonIntList(text) THEN [ok |-> TRUE, val |-> PyList(JsonListItems(text))]
        ELSE [ok |-> FALSE, val |-> None]

\* Python's truth value of a value: `x if body else y`.
Truthy(val) ==
    CASE val.t = "none" -> FALSE
      [] val.t = "True" -> TRUE
      [] val.t = "False" -> FALSE
      [] val.t = "int" -> \E i \in 1..Len(val.v) : val.v[i] # "0"
      [] val.t = "str" -> val.v # <<>>
      [] val.t = "list" -> val.v # <<>>
      [] val.t = "dict" -> val.v # <<>>

\* json.dumps of a str: quoted, escaped, non-ASCII as \uXXXX.
EscapeChar(c) ==
    CASE c = "\"" -> <<"\\", "\"">>
      [] c = "\\" -> <<"\\", "\\">>
      [] c = "\n" -> <<"\\", "n">>
      [] c = "\r" -> <<"\\", "r">>
      [] c = "\t" -> <<"\\", "t">>
      [] c = EAcute -> <<"\\", "u", "0", "0", "e", "9">>
      [] OTHER -> <<c>>

DumpsStr(text) ==
    <<"\"">> \o Concat([i \in 1..Len(text) |-> EscapeChar(text[i])]) \o <<"\"">>

\* json.dumps(val, indent=2)
Dumps(val) ==
    CASE val.t = "none" -> <<"n", "u", "l", "l">>
      [] val.t = "True" -> <<"t", "r", "u", "e">>
      [] val.t = "False" -> <<"f", "a", "l", "s", "e">>
      [] val.t = "int" -> val.v
      [] val.t = "str" -> DumpsStr(val.v)
      [] val.t = "dict" -> <<"{", "}">>
      [] val.t = "list" ->
            IF val.v = <<>> THEN <<"[", "]">>
            ELSE <<"[", "\n", " ", " ">>
                 \o Join(Split(val.v, <<",">>), <<",", "\n", " ", " ">>)
                 \o <<"\n", "]">>

\* json.dumps(query_params, indent=2) of a non-empty dict of str to str.
DumpsParams(pairs) ==
    <<"{", "\n", " ", " ">>
    \o Join([i \in 1..Len(pairs) |->
                DumpsStr(pairs[i][1]) \o <<":", " ">> \o DumpsStr(pairs[i][2])],
            <<",", "\n", " ", " ">>)
    \o <<"\n", "}">>

(***************************************************************************)
(* catch_all (src/main.py, 51-177)                                         *)
(***************************************************************************)
NoneMarker == <<"N", "o", "n", "e">>

\* The four interpolated fields of the prompt; its other text is fixed.
BuildPrompt(m, path, params, b) ==
    [ Method |-> m,
      Path |-> <<"/">> \o path,
      QueryParameters |-> IF params # <<>> THEN DumpsParams(params) ELSE NoneMarker,
      RequestBody |-> IF Truthy(b) THEN Dumps(b) ELSE NoneMarker ]

\* The error page: the fixed text around the two interpolated fields is
\* shortened to the markup next to them and the link to the homepage.
ErrPathOpen == <<"<", "d", "i", "v", " ", "c", "l", "a", "s", "s", "=", "\"", "p", "a", "t", "h", "\"", ">">>
ErrPathClose == <<"<", "/", "d", "i", "v", ">">>
ErrTextOpen == <<"<", "p", ">", "<", "s", "t", "r", "o", "n", "g", ">", "E", "r", "r", "o", "r", ":", "<", "/", "s", "t", "r", "o", "n", "g", ">", " ">>
ErrTextClose == <<"<", "/", "p", ">">>
ErrHomeLink == <<"<", "a", " ", "h", "r", "e", "f", "=", "\"", "/", "\"", ">">>

\* The error page without the requested path.
ErrorPage_without_path(path, err) ==
    ErrPathOpen \o ErrPathClose \o ErrTextOpen \o err \o ErrTextClose \o ErrHomeLink

ErrorPage(path, err) ==
    ErrPathOpen \o <<"/">> \o path \o ErrPathClose
    \o ErrTextOpen \o err \o ErrTextClose \o ErrHomeLink

Methods == {"GET", "POST", "PUT", "DELETE", "PATCH"}
BodyMethods == {"POST", "PUT", "PATCH"}

\* Lines 68-121: the prompt is built and model.generate_content is called, a
\* blocking call made on the event loop's thread.
CallModel(r, b) ==
    /\ body' = [body EXCEPT ![r] = b]
    /\ prompt' = [prompt EXCEPT ![r] = BuildPrompt(method[r], full_path[r], query_params[r], b)]
    /\ calls' = [calls EXCEPT ![r] = calls[r] + 1]
    /\ pc' = [pc EXCEPT ![r] = "generating"]
    /\ loop' = r
    /\ UNCHANGED <<method, full_path, query_params, raw, model_out, response>>

\* Lines 56-63: the handler starts; a request with a body method suspends at
\* `await request.json()`, any other goes on to the model call.
Enter(r) ==
    /\ pc[r] = "start"
    /\ loop = 0
    /\ IF method[r] \in BodyMethods
       THEN /\ pc' = [pc EXCEPT ![r] = "await_json"]
            /\ body' = [body EXCEPT ![r] = None]
            /\ UNCHANGED <<method, full_path, query_params, raw, prompt, calls,
                           model_out, response, loop>>
       ELSE CallModel(r, None)
    /\ UNCHANGED tvars

\* Lines 63-65: request.json() returns the parsed body, or raises into the
\* bare except, which suspends at `await request.body()`.
JsonReturns(r) ==
    /\ pc[r] = "await_json"
    /\ loop = 0
    /\ IF JsonLoads(raw[r]).ok
       THEN CallModel(r, JsonLoads(raw[r]).val)
       ELSE /\ pc' = [pc EXCEPT ![r] = "await_body"]
            /\ UNCHANGED <<method, full_path, query_params, raw, body, prompt, calls,
                           model_out, response, loop>>
    /\ UNCHANGED tvars

\* Lines 65-66: body = body.decode() if body else None. A decode that raises
\* does so inside the except clause, outside the try of line 113: the
\* exception leaves catch_all.
BodyReturns(r) ==
    /\ pc[r] = "await_body"
    /\ loop = 0
    /\ IF raw[r] = <<>>
       THEN CallModel(r, None)
       ELSE IF Utf8Decode(raw[r]).ok
       THEN CallModel(r, PyStr(Utf8Decode(raw[r]).text))
       ELSE /\ pc' = [pc EXCEPT ![r] = "raised"]
            /\ UNCHANGED <<method, full_path, query_params, raw, body, prompt, calls,
                           model_out, response, loop>>
    /\ UNCHANGED tvars

\* The handler classifying the model's raw text instead of the sanitized one.
GenerateReturns_classify_raw(r, text) ==
    /\ pc[r] = "generating"
    /\ loop = r
    /\ model_out' = [model_out EXCEPT ![r] = [kind |-> "text", text |-> text]]
    /\ response' = [response EXCEPT ![r] =
            Append(@, [ status_code |-> 200,
                        media_type |-> detect_content_type(text)[1],
                        content |-> clean_llm_response(text) ])]
    /\ pc' = [pc EXCEPT ![r] = "done"]
    /\ loop' = 0
    /\ UNCHANGED <<method, full_path, query_params, raw, body, prompt, calls>>
    /\ UNCHANGED tvars

\* Lines 121-127: generate_content returns, the text is sanitized, then
\* classified, and the Response (status 200 by default) is returned.
GenerateReturns(r, text) ==
    /\ pc[r] = "generating"
    /\ loop = r
    /\ model_out' = [model_out EXCEPT ![r] = [kind |-> "text", text |-> text]]
    /\ LET clean == clean_llm_response(text)
       IN  response' = [response EXCEPT ![r] =
                Append(@, [ status_code |-> 200,
                            media_type |-> detect_content_type(clean)[1],
                            content |-> clean ])]
    /\ pc' = [pc EXCEPT ![r] = "done"]
    /\ loop' = 0
    /\ UNCHANGED <<method, full_path, query_params, raw, body, prompt, calls>>
    /\ UNCHANGED tvars

\* The handler calling the model a second time after a failure.
GenerateRaises_retry(r, err) ==
    /\ pc[r] = "generating"
    /\ loop = r
    /\ model_out' = [model_out EXCEPT ![r] = [kind |-> "error", text |-> err]]
    /\ IF calls[r] < 2
       THEN /\ calls' = [calls EXCEPT ![r] = calls[r] + 1]
            /\ UNCHANGED <<pc, loop, response>>
       ELSE /\ response' = [response EXCEPT ![r] =
                    Append(@, [ status_code |-> 500,
                                media_type |-> "text/html",
                                content |-> ErrorPage(full_path[r], err) ])]
            /\ pc' = [pc EXCEPT ![r] = "done"]
            /\ loop' = 0
            /\ UNCHANGED calls
    /\ UNCHANGED <<method, full_path, query_params, raw, body, prompt>>
    /\ UNCHANGED tvars

\* Lines 129-177: the guarded section raised an Exception whose str() is err;
\* the error page is returned with status 500.
GenerateRaises(r, err) ==
    /\ pc[r] = "generating"
    /\ loop = r
    /\ model_out' = [model_out EXCEPT ![r] = [kind |-> "error", text |-> err]]
    /\ response' = [response EXCEPT ![r] =
            Append(@, [ status_code |-> 500,
                        media_type |-> "text/html",
                        content |-> ErrorPage(full_path[r], err) ])]
    /\ pc' = [pc EXCEPT ![r] = "done"]
    /\ loop' = 0
    /\ UNCHANGED <<method, full_path, query_params, raw, body, prompt, calls>>
    /\ UNCHANGED tvars

(***************************************************************************)
(* The requests and the model's answers the handler is run on.             *)
(***************************************************************************)
Paths == { <<>>, <<"a", "b", "o", "u", "t">> }

Queries == { <<>>, << << <<"q">>, <<"1">> >> >> }

Bodies ==
    { <<>>,                        \* no bytes
      <<48>>,                      \* 0
      <<55>>,                      \* 7
      <<123, 125>>,                \* {}
      <<91, 93>>,                  \* []
      <<91, 48, 93>>,              \* [0]
      <<34, 34>>,                  \* ""
      <<34, 120, 34>>,             \* "x"
      <<110, 117, 108, 108>>,      \* null
      <<102, 97, 108, 115, 101>>,  \* false
      <<116, 114, 117, 101>>,      \* true
      <<32, 48, 32>>,              \* 0 between spaces
      <<120>>,                     \* x: no JSON
      <<123, 120>>,                \* {x: no JSON
      <<32>>,                      \* a space: no JSON
      <<48, 48>>,                  \* 00: no JSON
      <<195, 169>>,                \* U+00E9: no JSON
      <<34, 195, 169, 34>>,        \* U+00E9 between quotes
      <<255>>,                     \* no UTF-8
      <<195>> }                    \* no UTF-8: a cut character

ModelTexts ==
    { <<"x">>,
      <<" ", "{", "x", "}">>,
      <<"<", "h", "t", "m", "l", ">">>,
      <<Backtick, Backtick, Backtick, "j", "s", "o", "n", "\n", "{", "}", "\n",
        Backtick, Backtick, Backtick>>,
      <<"x", Backtick, Backtick, Backtick, "h", "t", "m", "l", "\n",
        "<", "h", "t", "m", "l", ">", Backtick, Backtick, Backtick, "x">> }

ModelErrors ==
    { <<>>, <<"q", "u", "o", "t", "a">> }

\* The requests of the runs with several requests in flight.
ConcurrentMethods == {"GET", "POST"}
ConcurrentBodies == { <<>>, <<48>>, <<120>> }

\* One request has arrived; the handler has not started.
Init ==
    /\ NoText
    /\ pc = [r \in Requests |-> IF r = 1 THEN "start" ELSE "none"]
    /\ \E m \in Methods, p \in Paths, q \in Queries, b \in Bodies :
          /\ method = [r \in Requests |-> IF r = 1 THEN m ELSE "GET"]
          /\ full_path = [r \in Requests |-> IF r = 1 THEN p ELSE <<>>]
          /\ query_params = [r \in Requests |-> IF r = 1 THEN q ELSE <<>>]
          /\ raw = [r \in Requests |-> IF r = 1 THEN b ELSE <<>>]
    /\ body = [r \in Requests |-> None]
    /\ prompt = [r \in Requests |-> NoPrompt]
    /\ calls = [r \in Requests |-> 0]
    /\ model_out = [r \in Requests |-> NoOutcome]
    /\ response = [r \in Requests |-> <<>>]
    /\ loop = 0

\* Every request has arrived; no handler has started.
InitConcurrent ==
    /\ NoText
    /\ pc = [r \in Requests |-> "start"]
    /\ method \in [Requests -> ConcurrentMethods]
    /\ full_path = [r \in Requests |-> <<>>]
    /\ query_params = [r \in Requests |-> <<>>]
    /\ raw \in [Requests -> ConcurrentBodies]
    /\ body = [r \in Requests |-> None]
    /\ prompt = [r \in Requests |-> NoPrompt]
    /\ calls = [r \in Requests |-> 0]
    /\ model_out = [r \in Requests |-> NoOutcome]
    /\ response = [r \in Requests |-> <<>>]
    /\ loop = 0

Next ==
    \/ \E r \in Requests : Enter(r)
    \/ \E r \in Requests : JsonReturns(r)
    \/ \E r \in Requests : BodyReturns(r)
    \/ \E r \in Requests : \E text \in ModelTexts : GenerateReturns(r, text)
    \/ \E r \in Requests : \E err \in ModelErrors : GenerateRaises(r, err)

Spec == Init /\ [][Next]_vars
SpecConcurrent == InitConcurrent /\ [][Next]_vars

(***************************************************************************)
(* Claims about the classifier.                                            *)
(***************************************************************************)
\* The rule list of the classifier, on the trimmed, lower-cased text t:
\* which rules match, and what each rule answers.
RuleMatches(i, t) ==
    CASE i = 1 -> StartsWith(t, DoctypeHtml) \/ StartsWith(t, HtmlOpen)
      [] i = 2 -> StartsWith(t, <<"{">>) \/ StartsWith(t, <<"[">>)
      [] i = 3 -> Contains(t, KwFunction) \/ Contains(t, KwConst) \/ Contains(t, KwVar)
      [] i = 4 -> StartsWith(t, <<"@">>)
                  \/ (Contains(t, <<"{">>) /\ Contains(t, <<":">>) /\ Contains(t, <<";">>))
      [] i = 5 -> TRUE

RuleAnswers ==
    << <<"text/html", "html">>, <<"application/json", "json">>,
       <<"application/javascript", "js">>, <<"text/css", "css">>,
       <<"text/plain", "text">> >>

FirstMatch(t) == RuleAnswers[SetMin({i \in 1..5 : RuleMatches(i, t)})]

\* C5: detect_content_type answers every text with one of five pairs, the
\* answer is that of the first matching rule of the ordered rule list on the
\* trimmed, lower-cased text, and a text that starts with "{" or "[" is
\* application/json whatever else it contains.
C5_FirstMatchWins ==
    detected # <<>> =>
        /\ detected[1] \in {RuleAnswers[i] : i \in 1..5}
        /\ detected[1] = FirstMatch(Lower(Strip(content)))
        /\ (StartsWith(Strip(content), <<"{">>) \/ StartsWith(Strip(content), <<"[">>))
              => detected[1][1] = "application/json"

\* C5 witness: a text that starts with "{" and contains "function" was
\* classified application/json.
C5_Witness ==
    /\ detected = << <<"application/json", "json">> >>
    /\ StartsWith(Strip(content), <<"{">>)
    /\ Contains(Lower(content), KwFunction)

(***************************************************************************)
(* Claims about the sanitizer.                                             *)
(***************************************************************************)
HasFence(text) == Contains(text, Fence)

\* The interior of the first fenced block: from behind the first fence to the
\* next fence, or to the end of the text without one.
FirstBlock(text) ==
    LET open == SetMin(Occurrences(text, Fence))
        rest == SubSeq(text, open + 3, Len(text))
    IN  IF HasFence(rest)
        THEN SubSeq(rest, 1, SetMin(Occurrences(rest, Fence)) - 1)
        ELSE rest

\* The first line of a text, and what follows its first line break.
FirstLine(text) ==
    IF Contains(text, Newline)
    THEN SubSeq(text, 1, SetMin(Occurrences(text, Newline)) - 1)
    ELSE text

AfterFirstLine(text) ==
    IF Contains(text, Newline)
    THEN SubSeq(text, SetMin(Occurrences(text, Newline)) + 1, Len(text))
    ELSE <<>>

\* C6, as stated: of a text with a fence only the first fenced block counts; if
\* the first line of the (trimmed) block is exactly a language tag the result
\* is the block without that line, otherwise it is the whole block trimmed.
C6_ExactTagLine ==
    (applied /\ HasFence(content)) =>
        LET block == Strip(FirstBlock(content))
        IN  cleaned = IF FirstLine(block) \in LanguageTags
                      THEN AfterFirstLine(block)
                      ELSE block

\* C6, amended: the first line of the trimmed block is compared with the
\* language tags after its own surrounding whitespace is removed.
C6_TrimmedTagLine ==
    (applied /\ HasFence(content)) =>
        LET block == Strip(FirstBlock(content))
        IN  cleaned = IF Strip(FirstLine(block)) \in LanguageTags
                      THEN AfterFirstLine(block)
                      ELSE block

\* C6 witness: a text with other text before its first fence, whose block's
\* first line is "html" followed by a carriage return, was sanitized: the text
\* before the fence and the tag line are gone.
C6_Witness ==
    /\ applied
    /\ HasFence(content)
    /\ SetMin(Occurrences(content, Fence)) > 1
    /\ FirstLine(Strip(FirstBlock(content))) = <<"h", "t", "m", "l", "\r">>
    /\ cleaned = <<"x">>

\* C7: a text without a fence is returned exactly as it was, however often the
\* sanitizer is applied.
C7_NoFenceUnchanged ==
    (applied /\ ~HasFence(content)) => cleaned = content

\* C7 witness: a text without a fence but with surrounding whitespace was
\* sanitized.
C7_Witness ==
    /\ applied
    /\ ~HasFence(content)
    /\ content # <<>>
    /\ Strip(content) # content

(***************************************************************************)
(* Claims about the handler.                                               *)
(***************************************************************************)
Finished(r) == pc[r] \in {"done", "raised"}

\* C1: a request whose handling has finished got exactly one response from
\* catch_all, a classified one with status 200 or the error page with status
\* 500; no exception left the handler and no request got two responses.
C1_ExactlyOneResponse ==
    \A r \in Requests :
        /\ Len(response[r]) <= 1
        /\ Finished(r) =>
            /\ pc[r] = "done"
            /\ Len(response[r]) = 1
            /\ \/ /\ response[r][1].status_code = 200
                  /\ model_out[r].kind = "text"
               \/ /\ response[r][1].status_code = 500
                  /\ response[r][1].content = ErrorPage(full_path[r], model_out[r].text)

\* C2: when the guarded section raised, the response has status 500 and
\* content type text/html, and its body contains "/" + full_path and str(e).
C2_ErrorPageOnRaise ==
    \A r \in Requests :
        model_out[r].kind = "error" =>
            /\ Len(response[r]) = 1
            /\ response[r][1].status_code = 500
            /\ response[r][1].media_type = "text/html"
            /\ Contains(response[r][1].content, <<"/">> \o full_path[r])
            /\ Contains(response[r][1].content, model_out[r].text)

\* C2 witness: the call of a request for /about raised "quota" and the
\* response was returned.
C2_Witness ==
    \E r \in Requests :
        /\ pc[r] = "done"
        /\ full_path[r] = <<"a", "b", "o", "u", "t">>
        /\ model_out[r] = [kind |-> "error", text |-> <<"q", "u", "o", "t", "a">>]
        /\ response[r][1].status_code = 500

\* C3: the model is invoked at most once for a request; once the invocation
\* has failed or returned, the handler has responded without a second one.
C3_AtMostOneCall ==
    \A r \in Requests :
        /\ calls[r] <= 1
        /\ model_out[r].kind # "pending" =>
            /\ pc[r] = "done"
            /\ calls[r] = 1
            /\ Len(response[r]) = 1

\* C3 witness: an invocation failed and the handler responded after that one
\* invocation.
C3_Witness ==
    \E r \in Requests :
        /\ model_out[r].kind = "error"
        /\ pc[r] = "done"
        /\ calls[r] = 1

\* C4: when the model returned the text T, the response has status 200, its
\* body is clean_llm_response(T) and its content type is the one
\* detect_content_type gives for clean_llm_response(T).
C4_SanitizeThenClassify ==
    \A r \in Requests :
        model_out[r].kind = "text" =>
            /\ Len(response[r]) = 1
            /\ response[r][1].status_code = 200
            /\ response[r][1].content = clean_llm_response(model_out[r].text)
            /\ response[r][1].media_type =
                   detect_content_type(clean_llm_response(model_out[r].text))[1]

\* C4 witness: the model returned a fenced text whose raw form and sanitized
\* form are classified differently, and the response was returned.
C4_Witness ==
    \E r \in Requests :
        /\ model_out[r].kind = "text"
        /\ pc[r] = "done"
        /\ clean_llm_response(model_out[r].text) # model_out[r].text
        /\ detect_content_type(model_out[r].text)[1] # response[r][1].media_type

\* The body is absent: the method carries none, or the structured parse failed
\* and no bytes were present.
BodyAbsent(r) ==
    \/ method[r] \notin BodyMethods
    \/ ~JsonLoads(raw[r]).ok /\ raw[r] = <<>>

\* C8: the prompt's Request Body field is the None marker only when the body
\* is absent; every body that was obtained is serialized into the prompt.
C8_NoneOnlyWhenAbsent ==
    \A r \in Requests :
        pc[r] \in {"generating", "done"} =>
            /\ prompt[r].RequestBody = NoneMarker <=> BodyAbsent(r)
            /\ ~BodyAbsent(r) => prompt[r].RequestBody = Dumps(body[r])

\* What the extraction is to give: the parsed body, else the decoded bytes
\* when there are any, else None; None for a method without a body.
ExpectedBody(r) ==
    IF method[r] \notin BodyMethods THEN None
    ELSE IF JsonLoads(raw[r]).ok THEN JsonLoads(raw[r]).val
    ELSE IF raw[r] # <<>> THEN PyStr(Utf8Decode(raw[r]).text)
    ELSE None

\* C9: the extraction of the body never raises, whatever the bytes: past the
\* extraction the handler is at the model call or behind it, with the body the
\* fallback rule gives.
C9_ExtractionNeverRaises ==
    \A r \in Requests :
        pc[r] \in {"generating", "done", "raised"} =>
            /\ pc[r] # "raised"
            /\ body[r] = ExpectedBody(r)

\* The next step of a handler that has not reached its model call.
HandlerStep(q) == Enter(q) \/ JsonReturns(q) \/ BodyReturns(q)

\* C10: requests in flight are independent: a pending (or hung) model call of
\* one request does not keep another request's handler from going on.
C10_PendingCallHangsOnlyItsRequest ==
    \A r \in Requests : \A q \in Requests \ {r} :
        (pc[r] = "generating" /\ pc[q] \in {"start", "await_json", "await_body"})
            => ENABLED HandlerStep(q)

====
